---- MODULE Spec2Model ----
(***************************************************************************)
(* REINFORCE for InvertedPendulum (reinforce_invpend_gym_v26.ipynb).       *)
(*                                                                         *)
(* The model covers the Policy_Network scale head, the REINFORCE agent     *)
(* (sample_action, the reward append, update) and the training loop.       *)
(*                                                                         *)
(* Numbers.  Rewards are integers, log-probabilities are tenths, gamma is  *)
(* 99/100; returns and the loss are exact rationals [n, d] in lowest       *)
(* terms, so equal values are equal records.  The rounding of the python   *)
(* doubles and of the float32 tensor built by torch.tensor(gs) is not      *)
(* modelled in update; the scale head, where rounding decides the result,  *)
(* is modelled with float32 ranges (Exp32, OnePlus32, Log32).              *)
(*                                                                         *)
(* The network and the density evaluation are opaque numeric functions:    *)
(* they are modelled as deterministic functions of exactly what the code   *)
(* reads (parameters, observation, the draws of torch's global generator). *)
(***************************************************************************)
EXTENDS Integers, Sequences, FiniteSets, TLC

\* ------------------------------------------------------------------ bounds
MaxLen == 3
MaxUpdates == 2
MaxEpisodes == 2
MaxCalls == 3
MaxRaw == 1000
RngMod == 4

\* ------------------------------------------------------- program constants
\* self.gamma = 0.99
GammaNum == 99
GammaDen == 100
\* float32: 24 significand bits, largest finite below 2^128, smallest
\* subnormal 2^-149 (exp rounds to 0 below 2^-150)
F32Mant == 24
F32MaxExp == 128
F32MinExp == -150

Agents == {1, 2}
\* for seed in [1, 2, 3, 5, 8]
Seeds == <<1, 2, 3, 5, 8>>
\* action_space_dims the agent is constructed with
ActDims == {1, 2}
\* observations, as far as the model tells them apart
ObsVals == {0, 1}
\* rewards recorded through the agent's interface
RewardVals == {0, 1, 10}
\* rewards env.step returns in the training loop
EnvRewards == {0, 1}
\* the log-densities (in tenths) the density evaluation can return
LpVals == <<-5, -3, -7>>
LpDen == 10

\* --------------------------------------------------------------- rationals
Abs(i) == IF i < 0 THEN -i ELSE i

RECURSIVE Gcd(_, _)
Gcd(a, b) == IF b = 0 THEN a ELSE Gcd(b, a % b)

Rat(num, den) ==
    LET g == Gcd(Abs(num), den)
    IN  [n |-> num \div g, d |-> den \div g]

RInt(i) == [n |-> i, d |-> 1]

RAdd(a, b) ==
    LET l == (a.d \div Gcd(a.d, b.d)) * b.d
    IN  Rat(a.n * (l \div a.d) + b.n * (l \div b.d), l)

RMul(a, b) ==
    LET g1 == Gcd(Abs(a.n), b.d)
        g2 == Gcd(Abs(b.n), a.d)
    IN  Rat((a.n \div g1) * (b.n \div g2), (a.d \div g2) * (b.d \div g1))

RECURSIVE RPow(_, _)
RPow(a, k) == IF k = 0 THEN RInt(1) ELSE RMul(a, RPow(a, k - 1))

RECURSIVE SumSeq(_)
SumSeq(s) == IF s = <<>> THEN 0 ELSE Head(s) + SumSeq(Tail(s))

RECURSIVE Reverse(_)
Reverse(s) == IF s = <<>> THEN <<>> ELSE Append(Reverse(Tail(s)), Head(s))

Min(a, b) == IF a <= b THEN a ELSE b

gamma == Rat(GammaNum, GammaDen)

VARIABLES
    rng,          \* state of torch's global random generator
    net,          \* per agent: the Policy_Network parameters
    optimizer,    \* per agent: the AdamW state
    dims,         \* per agent: action_space_dims (0: not constructed)
    probs,        \* per agent: self.probs
    rewards,      \* per agent: self.rewards
    ret,          \* the last call on an agent: its inputs, locals and outcome
    pc,           \* training loop: position
    seedIdx,      \* training loop: index into Seeds
    episode,      \* training loop: episode
    done,         \* training loop: done
    obs,          \* training loop: obs
    t,            \* environment: steps taken since reset (TimeLimit's count)
    calls,        \* per agent: the calls made on it (two-instance harness)
    outs,         \* per agent: what those calls returned
    x_raw,        \* scale head: the raw pre-activation
    action_stddevs \* scale head: the value forward returns

vars == <<rng, net, optimizer, dims, probs, rewards, ret, pc, seedIdx,
          episode, done, obs, t, calls, outs, x_raw, action_stddevs>>

agentVars == <<rng, net, optimizer, dims, probs, rewards, ret>>
driverVars == <<pc, seedIdx, episode, done, obs, t>>
pairVars == <<calls, outs>>
fwdVars == <<x_raw, action_stddevs>>

\* ------------------------------------------------------- the global generator
\* torch.manual_seed(seed)
SeedState(seed) == seed % RngMod

\* one draw moves the generator on
NextRng(r) == (r + 1) % RngMod

\* the standard-normal draw the generator yields in state r (three ranges)
Draw(r) == r % 3

\* ------------------------------------------------------------ Policy_Network
\* nn.Linear initialisation draws the initial weights from the generator
InitParams(r) == [init |-> r, ver |-> 0]

\* the generator after the layers' initialisation
AfterInit(r) == NextRng(r)

\* the (mean, stddev) the network returns for an observation: a function of
\* the parameters and the observation only
Forward(p, o) == (p.init + p.ver + o) % 3

\* Normal(mean + eps, stddev + eps).log_prob(action), per action dimension
LogProbOf(dist, z) == LpVals[((dist + z) % 3) + 1]

\* ---------------------------------------------------- float32 scale head
\* A float32 value, as far as the scale head's result depends on it: zero,
\* exactly one, a positive finite value in [2^e, 2^(e+1)), or infinity.
NoFloat == [kind |-> "none", e |-> 0]
F32(kind, e) == [kind |-> kind, e |-> e]

\* torch.exp on float32: exp(x) = 2^(x * log2(e)); it overflows to inf from
\* 2^128 on and rounds to 0 below 2^-150
Exp32(x) ==
    LET e == (x * 1442695) \div 1000000
    IN  IF e >= F32MaxExp THEN F32("inf", 0)
        ELSE IF e < F32MinExp THEN F32("zero", 0)
        ELSE F32("pos", e)

\* 1 + v on float32: a v below half the spacing of the floats at 1 (2^-24)
\* is rounded away and the sum is exactly 1
OnePlus32(v) ==
    IF v.kind = "inf" THEN F32("inf", 0)
    ELSE IF v.kind = "zero" \/ v.e < -F32Mant THEN F32("one", 0)
    ELSE F32("pos", IF v.e < 0 THEN 0 ELSE v.e)

\* torch.log on float32: log(1) = 0, log(inf) = inf, log(w) > 0 for w > 1
Log32(w) ==
    IF w.kind = "one" THEN F32("zero", 0)
    ELSE IF w.kind = "inf" THEN F32("inf", 0)
    ELSE F32("pos", 0)

\* Policy_Network.forward, the scale:
\* action_stddevs = torch.log(1 + torch.exp(policy_stddev_net(...)))
ForwardScale(x) == Log32(OnePlus32(Exp32(x)))

NoRet ==
    [agent |-> 0, call |-> "none", err |-> "none", action |-> <<>>,
     preProbs |-> <<>>, preRewards |-> <<>>, gs |-> <<>>, loss |-> RInt(0)]

\* ------------------------------------------------------------------ REINFORCE
NoNet == [init |-> 0, ver |-> 0]
NoOpt == [step |-> 0]

RECURSIVE RngAfter(_, _)
RngAfter(r, k) == IF k = 0 THEN r ELSE RngAfter(NextRng(r), k - 1)

\* REINFORCE.__init__: empty buffers, a freshly initialised network and a
\* fresh AdamW over its parameters
Construct(a, d) ==
    /\ net' = [net EXCEPT ![a] = InitParams(rng)]
    /\ rng' = AfterInit(rng)
    /\ optimizer' = [optimizer EXCEPT ![a] = NoOpt]
    /\ dims' = [dims EXCEPT ![a] = d]
    /\ probs' = [probs EXCEPT ![a] = <<>>]
    /\ rewards' = [rewards EXCEPT ![a] = <<>>]
    /\ ret' = [NoRet EXCEPT !.agent = a, !.call = "__init__"]

\* distrib.sample(): one draw per action dimension from the global generator
SampleOf(dist, r, d) == [i \in 1..d |-> <<dist, Draw(RngAfter(r, i - 1))>>]

\* distrib.log_prob(action): one log-density per action dimension
LogProb(action) == [i \in 1..Len(action) |-> LogProbOf(action[i][1], action[i][2])]

\* sample_action that also resets the rewards buffer
SampleAction_ClearsRewards(a, o) ==
    /\ dims[a] > 0
    /\ LET dist == Forward(net[a], o)
           action == SampleOf(dist, rng, dims[a])
           prob == LogProb(action)
       IN  /\ rng' = RngAfter(rng, dims[a])
           /\ probs' = [probs EXCEPT ![a] = Append(@, prob)]
           /\ ret' = [NoRet EXCEPT !.agent = a, !.call = "sample_action",
                                   !.action = action]
    /\ rewards' = [rewards EXCEPT ![a] = <<>>]
    /\ UNCHANGED <<net, optimizer, dims>>

\* REINFORCE.sample_action
SampleAction(a, o) ==
    /\ dims[a] > 0
    /\ LET dist == Forward(net[a], o)
           action == SampleOf(dist, rng, dims[a])
           prob == LogProb(action)
       IN  /\ rng' = RngAfter(rng, dims[a])
           /\ probs' = [probs EXCEPT ![a] = Append(@, prob)]
           /\ ret' = [NoRet EXCEPT !.agent = a, !.call = "sample_action",
                                   !.action = action]
    /\ UNCHANGED <<net, optimizer, dims, rewards>>

\* agent.rewards.append(reward)
RecordReward(a, r) ==
    /\ dims[a] > 0
    /\ rewards' = [rewards EXCEPT ![a] = Append(@, r)]
    /\ ret' = [NoRet EXCEPT !.agent = a, !.call = "rewards.append"]
    /\ UNCHANGED <<rng, net, optimizer, dims, probs>>

\* for R in self.rewards[::-1]: running_g = R + gamma * running_g;
\*                              gs.insert(0, running_g)
RECURSIVE ScanReturns(_, _, _)
ScanReturns(rev, running_g, gs) ==
    IF rev = <<>> THEN gs
    ELSE LET g == RAdd(RInt(Head(rev)), RMul(gamma, running_g))
         IN  ScanReturns(Tail(rev), g, <<g>> \o gs)

\* the scan without the reversal of the rewards
UpdateReturns_ForwardScan(rs) == ScanReturns(rs, RInt(0), <<>>)

UpdateReturns(rs) == ScanReturns(Reverse(rs), RInt(0), <<>>)

\* log_prob.mean(): the mean over the action dimensions
Mean(lp) == Rat(SumSeq(lp), LpDen * Len(lp))

\* for log_prob, delta in zip(self.probs, deltas):
\*     loss += log_prob.mean() * delta * (-1)
RECURSIVE LossLoop(_, _, _, _)
LossLoop(ps, deltas, i, loss) ==
    IF i > Min(Len(ps), Len(deltas)) THEN loss
    ELSE LossLoop(ps, deltas, i + 1,
                  RAdd(loss, RMul(RMul(Mean(ps[i]), deltas[i]), RInt(-1))))

UpdateLoss(ps, deltas) == LossLoop(ps, deltas, 1, RInt(0))

\* update with a check that raises when the two buffers differ in length
LossIsInt_LengthsChecked(ps, deltas) ==
    Len(ps) # Len(deltas) \/ Min(Len(ps), Len(deltas)) = 0

\* loss stays the python int 0 when zip yields nothing, and an int has no
\* backward(): the call raises AttributeError before the optimizer step and
\* before the buffers are cleared
LossIsInt(ps, deltas) == Min(Len(ps), Len(deltas)) = 0

\* update that clears self.probs only
Update_KeepsRewards(a) ==
    /\ dims[a] > 0
    /\ LET gs == UpdateReturns(rewards[a])
           deltas == gs
           loss == UpdateLoss(probs[a], deltas)
           r == [NoRet EXCEPT !.agent = a, !.call = "update",
                              !.preProbs = probs[a], !.preRewards = rewards[a],
                              !.gs = gs, !.loss = loss]
       IN  IF LossIsInt(probs[a], deltas)
           THEN /\ ret' = [r EXCEPT !.err = "AttributeError"]
                /\ UNCHANGED <<net, optimizer, probs, rewards>>
           ELSE /\ ret' = r
                /\ net' = [net EXCEPT ![a].ver = @ + 1]
                /\ optimizer' = [optimizer EXCEPT ![a].step = @ + 1]
                /\ probs' = [probs EXCEPT ![a] = <<>>]
                /\ UNCHANGED rewards
    /\ UNCHANGED <<rng, dims>>

\* REINFORCE.update
Update(a) ==
    /\ dims[a] > 0
    /\ LET gs == UpdateReturns(rewards[a])
           deltas == gs
           loss == UpdateLoss(probs[a], deltas)
           r == [NoRet EXCEPT !.agent = a, !.call = "update",
                              !.preProbs = probs[a], !.preRewards = rewards[a],
                              !.gs = gs, !.loss = loss]
       IN  IF LossIsInt(probs[a], deltas)
           THEN /\ ret' = [r EXCEPT !.err = "AttributeError"]
                /\ UNCHANGED <<net, optimizer, probs, rewards>>
           ELSE /\ ret' = r
                /\ net' = [net EXCEPT ![a].ver = @ + 1]
                /\ optimizer' = [optimizer EXCEPT ![a].step = @ + 1]
                /\ probs' = [probs EXCEPT ![a] = <<>>]
                /\ rewards' = [rewards EXCEPT ![a] = <<>>]
    /\ UNCHANGED <<rng, dims>>

\* ------------------------------------------------- the agent's interface
\* One agent, constructed after torch.manual_seed(Seeds[1]) with either
\* action dimension, and any sequence of calls of its three operations.
ApiInit ==
    /\ \E d \in ActDims :
          /\ rng = AfterInit(SeedState(Seeds[1]))
          /\ net = [a \in Agents |-> IF a = 1 THEN InitParams(SeedState(Seeds[1]))
                                     ELSE NoNet]
          /\ dims = [a \in Agents |-> IF a = 1 THEN d ELSE 0]
    /\ optimizer = [a \in Agents |-> NoOpt]
    /\ probs = [a \in Agents |-> <<>>]
    /\ rewards = [a \in Agents |-> <<>>]
    /\ ret = NoRet
    /\ pc = "api"
    /\ seedIdx = 0
    /\ episode = 0
    /\ done = FALSE
    /\ obs = 0
    /\ t = 0
    /\ calls = [a \in Agents |-> <<>>]
    /\ outs = [a \in Agents |-> <<>>]
    /\ x_raw = 0
    /\ action_stddevs = NoFloat

ApiSample ==
    /\ Len(probs[1]) < MaxLen
    /\ \E o \in ObsVals : SampleAction(1, o)
    /\ UNCHANGED <<driverVars, pairVars, fwdVars>>

ApiReward ==
    /\ Len(rewards[1]) < MaxLen
    /\ \E r \in RewardVals : RecordReward(1, r)
    /\ UNCHANGED <<driverVars, pairVars, fwdVars>>

ApiUpdate ==
    /\ optimizer[1].step < MaxUpdates
    /\ Update(1)
    /\ UNCHANGED <<driverVars, pairVars, fwdVars>>

ApiNext == ApiSample \/ ApiReward \/ ApiUpdate

SpecApi == ApiInit /\ [][ApiNext]_vars

\* --------------------------------------------------------- the training loop
\* The positions of the loop: "seed" (torch.manual_seed), "construct"
\* (agent = REINFORCE(...)), "reset" (the episode loop's head and
\* wrapped_env.reset), "while" (the test of `while not done`), "sample",
\* "step", "update", "raised" (an exception left the loop), "end".
DriverInit ==
    /\ rng = 0
    /\ net = [a \in Agents |-> NoNet]
    /\ optimizer = [a \in Agents |-> NoOpt]
    /\ dims = [a \in Agents |-> 0]
    /\ probs = [a \in Agents |-> <<>>]
    /\ rewards = [a \in Agents |-> <<>>]
    /\ ret = NoRet
    /\ pc = "seed"
    /\ seedIdx = 1
    /\ episode = 0
    /\ done = FALSE
    /\ obs = 0
    /\ t = 0
    /\ calls = [a \in Agents |-> <<>>]
    /\ outs = [a \in Agents |-> <<>>]
    /\ x_raw = 0
    /\ action_stddevs = NoFloat

\* torch.manual_seed(seed)
ManualSeed(seed) == rng' = SeedState(seed)

\* for seed in [1, 2, 3, 5, 8]: torch.manual_seed(seed)
DriverSeed ==
    /\ pc = "seed"
    /\ ManualSeed(Seeds[seedIdx])
    /\ pc' = "construct"
    /\ UNCHANGED <<net, optimizer, dims, probs, rewards, ret>>
    /\ UNCHANGED <<seedIdx, episode, done, obs, t, pairVars, fwdVars>>

\* agent = REINFORCE(obs_space_dims, action_space_dims); InvertedPendulum's
\* action space has one dimension
DriverConstruct ==
    /\ pc = "construct"
    /\ Construct(1, 1)
    /\ episode' = 0
    /\ pc' = "reset"
    /\ UNCHANGED <<seedIdx, done, obs, t, pairVars, fwdVars>>

\* wrapped_env.reset(seed=seed): the seed fixes the first observation
ResetObs(seed) == seed % 2

\* the episode loop with done set when the episode starts
DriverReset_DoneTrue ==
    /\ pc = "reset"
    /\ IF episode < MaxEpisodes
       THEN /\ obs' = ResetObs(Seeds[seedIdx])
            /\ t' = 0
            /\ done' = TRUE
            /\ pc' = "while"
            /\ UNCHANGED seedIdx
       ELSE /\ pc' = IF seedIdx < Len(Seeds) THEN "seed" ELSE "end"
            /\ seedIdx' = IF seedIdx < Len(Seeds) THEN seedIdx + 1 ELSE seedIdx
            /\ UNCHANGED <<obs, t, done>>
    /\ UNCHANGED <<episode, agentVars, pairVars, fwdVars>>

\* for episode in range(total_num_episodes): obs, info = reset(seed=seed);
\* done = False.  When the range is exhausted the seed loop goes on.
DriverReset ==
    /\ pc = "reset"
    /\ IF episode < MaxEpisodes
       THEN /\ obs' = ResetObs(Seeds[seedIdx])
            /\ t' = 0
            /\ done' = FALSE
            /\ pc' = "while"
            /\ UNCHANGED seedIdx
       ELSE /\ pc' = IF seedIdx < Len(Seeds) THEN "seed" ELSE "end"
            /\ seedIdx' = IF seedIdx < Len(Seeds) THEN seedIdx + 1 ELSE seedIdx
            /\ UNCHANGED <<obs, t, done>>
    /\ UNCHANGED <<episode, agentVars, pairVars, fwdVars>>

\* the loop left after its first step, whatever done is
DriverWhile_LeavesAfterOneStep ==
    /\ pc = "while"
    /\ pc' = IF t = 0 THEN "sample" ELSE "update"
    /\ UNCHANGED <<seedIdx, episode, done, obs, t, agentVars, pairVars, fwdVars>>

\* while not done:
DriverWhile ==
    /\ pc = "while"
    /\ pc' = IF ~done THEN "sample" ELSE "update"
    /\ UNCHANGED <<seedIdx, episode, done, obs, t, agentVars, pairVars, fwdVars>>

\* action = agent.sample_action(obs)
DriverSample ==
    /\ pc = "sample"
    /\ SampleAction(1, obs)
    /\ pc' = "step"
    /\ UNCHANGED <<seedIdx, episode, done, obs, t, pairVars, fwdVars>>

\* the step with the reward of the episode's last step not recorded
DriverStep_DropsLastReward ==
    /\ pc = "step"
    /\ \E next_obs \in ObsVals, reward \in EnvRewards, terminated \in BOOLEAN :
          LET truncated == t + 1 >= MaxLen
          IN  /\ IF terminated \/ truncated
                 THEN UNCHANGED agentVars
                 ELSE RecordReward(1, reward)
              /\ obs' = next_obs
              /\ done' = (terminated \/ truncated)
    /\ t' = t + 1
    /\ pc' = "while"
    /\ UNCHANGED <<seedIdx, episode, pairVars, fwdVars>>

\* obs, reward, terminated, truncated, info = wrapped_env.step(action);
\* agent.rewards.append(reward); done = terminated or truncated.
\* The environment is free in what it returns; its time limit truncates the
\* episode at MaxLen steps.
DriverStep ==
    /\ pc = "step"
    /\ \E next_obs \in ObsVals, reward \in EnvRewards, terminated \in BOOLEAN :
          LET truncated == t + 1 >= MaxLen
          IN  /\ RecordReward(1, reward)
              /\ obs' = next_obs
              /\ done' = (terminated \/ truncated)
    /\ t' = t + 1
    /\ pc' = "while"
    /\ UNCHANGED <<seedIdx, episode, pairVars, fwdVars>>

\* agent.update(), after the while loop; then the next episode
DriverUpdate ==
    /\ pc = "update"
    /\ Update(1)
    /\ IF ret'.err # "none"
       THEN /\ pc' = "raised"
            /\ UNCHANGED episode
       ELSE /\ pc' = "reset"
            /\ episode' = episode + 1
    /\ UNCHANGED <<seedIdx, done, obs, t, pairVars, fwdVars>>

Next ==
    \/ DriverSeed
    \/ DriverConstruct
    \/ DriverReset
    \/ DriverWhile
    \/ DriverSample
    \/ DriverStep
    \/ DriverUpdate

Spec == DriverInit /\ [][Next]_vars

\* ------------------------------------------------------ two agent instances
\* Two agents in one process, as the seed loop creates them one after the
\* other: each is constructed after torch.manual_seed, and both are fed the
\* same sequence of calls (the agent that is behind repeats the calls, with
\* their inputs, of the agent that is ahead).  calls and outs record what
\* each agent was asked and what it returned.
PairInit ==
    /\ rng = 0
    /\ net = [a \in Agents |-> NoNet]
    /\ optimizer = [a \in Agents |-> NoOpt]
    /\ dims = [a \in Agents |-> 0]
    /\ probs = [a \in Agents |-> <<>>]
    /\ rewards = [a \in Agents |-> <<>>]
    /\ ret = NoRet
    /\ pc = "pair"
    /\ seedIdx = 0
    /\ episode = 0
    /\ done = FALSE
    /\ obs = 0
    /\ t = 0
    /\ calls = [a \in Agents |-> <<>>]
    /\ outs = [a \in Agents |-> <<>>]
    /\ x_raw = 0
    /\ action_stddevs = NoFloat

\* torch.manual_seed(seed), with the first or the second seed of the loop,
\* while an agent is still to be constructed
PairSeed ==
    /\ \E a \in Agents : dims[a] = 0
    /\ \E i \in 1..2 : ManualSeed(Seeds[i])
    /\ UNCHANGED <<net, optimizer, dims, probs, rewards, ret>>
    /\ UNCHANGED <<driverVars, pairVars, fwdVars>>

\* agent = REINFORCE(obs_space_dims, action_space_dims)
PairConstruct ==
    /\ \E a \in Agents :
          /\ dims[a] = 0
          /\ Construct(a, 1)
    /\ UNCHANGED <<driverVars, pairVars, fwdVars>>

PairCalls ==
    [op : {"sample_action"}, arg : ObsVals]
        \cup [op : {"rewards.append"}, arg : EnvRewards]
        \cup [op : {"update"}, arg : {0}]

Other(a) == CHOOSE b \in Agents : b # a

\* what a call returned: the sampled action, or the loss update
\* back-propagated and the exception it raised
Returned(r) ==
    IF r.call = "sample_action" THEN r.action
    ELSE IF r.call = "update" THEN <<r.loss, r.err>>
    ELSE <<>>

\* the next call on agent a
PairCall ==
    /\ \E a \in Agents, c \in PairCalls :
          /\ dims[a] > 0
          /\ Len(calls[a]) < MaxCalls
          /\ Len(calls[a]) < Len(calls[Other(a)]) =>
                c = calls[Other(a)][Len(calls[a]) + 1]
          /\ CASE c.op = "sample_action" -> SampleAction(a, c.arg)
               [] c.op = "rewards.append" -> RecordReward(a, c.arg)
               [] c.op = "update" -> Update(a)
          /\ calls' = [calls EXCEPT ![a] = Append(@, c)]
          /\ outs' = [outs EXCEPT ![a] = Append(@, Returned(ret'))]
    /\ UNCHANGED <<driverVars, fwdVars>>

PairNext == PairSeed \/ PairConstruct \/ PairCall

SpecPair == PairInit /\ [][PairNext]_vars

\* C9: two agents constructed with the same parameter-initialisation seed
\* and fed the same calls return the same sampled actions and make the same
\* parameter updates; no state is shared through which one agent's calls
\* change the other's results.
C9_SameSeedSameCallsSameResults ==
    (/\ dims[1] > 0
     /\ dims[2] > 0
     /\ net[1].init = net[2].init) =>
        \A k \in 1..Min(Len(calls[1]), Len(calls[2])) :
            calls[1][k] = calls[2][k] => outs[1][k] = outs[2][k]

\* ------------------------------------------------------------ the scale head
\* forward on one raw pre-activation of the scale head
FwdInit ==
    /\ x_raw \in (-MaxRaw)..MaxRaw
    /\ action_stddevs = NoFloat
    /\ rng = 0
    /\ net = [a \in Agents |-> NoNet]
    /\ optimizer = [a \in Agents |-> NoOpt]
    /\ dims = [a \in Agents |-> 0]
    /\ probs = [a \in Agents |-> <<>>]
    /\ rewards = [a \in Agents |-> <<>>]
    /\ ret = NoRet
    /\ pc = "forward"
    /\ seedIdx = 0
    /\ episode = 0
    /\ done = FALSE
    /\ obs = 0
    /\ t = 0
    /\ calls = [a \in Agents |-> <<>>]
    /\ outs = [a \in Agents |-> <<>>]

\* action_means, action_stddevs = self.net(state)
FwdCall ==
    /\ action_stddevs = NoFloat
    /\ action_stddevs' = ForwardScale(x_raw)
    /\ UNCHANGED <<x_raw, agentVars, driverVars, pairVars>>

SpecForward == FwdInit /\ [][FwdCall]_vars

\* C10: for any raw pre-activation x, x = -1000 included, the scale forward
\* returns is strictly greater than 0 and finite.
C10_ScalePositiveFinite ==
    action_stddevs # NoFloat => action_stddevs.kind = "pos"

\* ---------------------------------------------- claims on the training loop
\* C4: at every call of agent.update() in the training loop the two buffers
\* have the same length T and T >= 1.
C4_UpdatePrecondition ==
    /\ pc = "update" =>
          /\ Len(probs[1]) = Len(rewards[1])
          /\ Len(probs[1]) >= 1
    /\ ret.call = "update" =>
          /\ Len(ret.preProbs) = Len(ret.preRewards)
          /\ Len(ret.preProbs) >= 1
          /\ ret.err = "none"

\* the second update of an agent, on an episode of one step
C4_Witness ==
    /\ ret.call = "update"
    /\ Len(ret.preProbs) = 1
    /\ episode = MaxEpisodes

\* C5: in the training loop every sample_action is followed by exactly one
\* reward append before the next sample_action and before any update:
\* len(rewards) <= len(log-probs) <= len(rewards) + 1 in every state, with
\* equality wherever sample_action or update is called next.
C5_RewardFollowsSample ==
    /\ Len(rewards[1]) <= Len(probs[1])
    /\ Len(probs[1]) <= Len(rewards[1]) + 1
    /\ pc \in {"sample", "update"} => Len(probs[1]) = Len(rewards[1])
    /\ pc = "step" => Len(probs[1]) = Len(rewards[1]) + 1

\* a sample whose reward is still to come, after a full step
C5_Witness ==
    /\ pc = "step"
    /\ Len(probs[1]) = 2
    /\ Len(rewards[1]) = 1

\* C6: update is called once per episode, only after the environment has
\* signalled done, and before the next episode's first sample_action; the
\* trajectory it consumes holds exactly the steps of that episode (both
\* buffers are empty when an episode starts); one optimizer step per episode.
C6_OneUpdatePerCompletedEpisode ==
    /\ pc = "update" =>
          /\ done
          /\ Len(probs[1]) = t
          /\ Len(rewards[1]) = t
    /\ (pc = "reset" \/ (pc \in {"while", "sample"} /\ t = 0)) =>
          /\ probs[1] = <<>>
          /\ rewards[1] = <<>>
    /\ pc \in {"while", "sample", "step"} => Len(rewards[1]) = t
    /\ pc \in {"reset", "while", "sample", "step", "update"} =>
          optimizer[1].step = episode
    /\ (pc = "reset" /\ ret.call = "update") =>
          /\ ret.err = "none"
          /\ Len(ret.preProbs) = t
          /\ Len(ret.preRewards) = t

\* the second seed's agent after its last episode: one optimizer step each
C6_Witness ==
    /\ pc = "reset"
    /\ seedIdx = 2
    /\ episode = MaxEpisodes
    /\ optimizer[1].step = MaxEpisodes
    /\ ret.call = "update"

\* ------------------------------------------------ claims on the interface
\* Sum over k = t..T of gamma^(k-t) * r_k
RECURSIVE DiscountedSum(_, _, _)
DiscountedSum(rs, from, k) ==
    IF k > Len(rs) THEN RInt(0)
    ELSE RAdd(RMul(RPow(gamma, k - from), RInt(rs[k])),
              DiscountedSum(rs, from, k + 1))

\* Sum over t = 1..n of -(lp_t * G_t), lp_t the log-density of the action
\* sampled at step t: the sum of the log-densities of its independent
\* dimensions
RECURSIVE PolicyGradientLoss(_, _, _)
PolicyGradientLoss(ps, rs, i) ==
    IF i > Len(ps) THEN RInt(0)
    ELSE RAdd(RMul(RMul(Rat(SumSeq(ps[i]), LpDen), DiscountedSum(rs, i, i)),
                   RInt(-1)),
              PolicyGradientLoss(ps, rs, i + 1))

\* C1: for every reward buffer r_1..r_T, T >= 1, update computes one return
\* per step, in time order, with G_T = r_T, G_t = r_t + gamma * G_(t+1) and
\* G_t = sum over k = t..T of gamma^(k-t) * r_k, nothing normalised or
\* subtracted.
C1_ReturnsAreDiscountedSums ==
    (ret.call = "update" /\ Len(ret.preRewards) >= 1) =>
        LET rs == ret.preRewards
            T == Len(rs)
        IN  /\ Len(ret.gs) = T
            /\ ret.gs[T] = RInt(rs[T])
            /\ \A i \in 1..(T - 1) :
                  ret.gs[i] = RAdd(RInt(rs[i]), RMul(gamma, ret.gs[i + 1]))
            /\ \A i \in 1..T : ret.gs[i] = DiscountedSum(rs, i, i)

\* rewards [1, 1, 1] give the returns 2.9701, 1.99, 1
C1_Witness ==
    /\ ret.call = "update"
    /\ ret.preRewards = <<1, 1, 1>>
    /\ ret.gs = <<Rat(29701, 10000), Rat(199, 100), RInt(1)>>

\* C2: for T >= 1 recorded log-probs and rewards, the loss update
\* back-propagates is the negative sum over t of log-prob_t * G_t, log-prob_t
\* being the log-density of the action sampled at step t.
C2_LossIsLogDensityTimesReturn ==
    (/\ ret.call = "update"
     /\ Len(ret.preProbs) >= 1
     /\ Len(ret.preProbs) = Len(ret.preRewards)) =>
        ret.loss = PolicyGradientLoss(ret.preProbs, ret.preRewards, 1)

C7_SampleActionFrame ==
    [][/\ ret'.call = "sample_action" =>
             /\ Len(probs'[1]) = Len(probs[1]) + 1
             /\ SubSeq(probs'[1], 1, Len(probs[1])) = probs[1]
             /\ rewards' = rewards
             /\ net' = net
             /\ optimizer' = optimizer
       /\ (net' # net \/ optimizer' # optimizer) => ret'.call = "update"]_vars

\* sample_action returned with rewards recorded and an update behind it
C7_Witness ==
    /\ ret.call = "sample_action"
    /\ Len(probs[1]) = 2
    /\ Len(rewards[1]) = 2
    /\ optimizer[1].step = 1

\* C8: update on an empty trajectory is a no-op or signals
\* EmptyTrajectoryError.
C8_EmptyUpdateNoOpOrEmptyTrajectoryError ==
    [][(/\ ret'.call = "update"
        /\ ret'.preProbs = <<>>
        /\ ret'.preRewards = <<>>) =>
           \/ ret'.err = "EmptyTrajectoryError"
           \/ /\ ret'.err = "none"
              /\ UNCHANGED <<net, optimizer, probs, rewards>>]_vars

\* Sum over i = 1..n of -(mean(lp_i) * G_i), G_i the return of step i over
\* the whole rewards buffer
RECURSIVE LossOfFirstPairs(_, _, _, _)
LossOfFirstPairs(ps, rs, n, i) ==
    IF i > n THEN RInt(0)
    ELSE RAdd(RMul(RMul(Rat(SumSeq(ps[i]), LpDen * Len(ps[i])),
                        DiscountedSum(rs, i, i)),
                   RInt(-1)),
              LossOfFirstPairs(ps, rs, n, i + 1))

\* C11: update does not compare the lengths of the two buffers.  Called with
\* both non-empty and of different lengths it raises nothing, computes the
\* returns over the whole rewards buffer, forms the loss from the first
\* min(len(log-probs), len(rewards)) pairs only, takes one optimizer step and
\* clears both buffers.  Called with exactly one buffer empty it raises before
\* the clearing step, nothing is changed, and the entries of the non-empty
\* buffer stay in front of whatever is appended next.
C11_UnequalBuffers ==
    [][/\ ret'.call = "update" =>
             LET lp == Len(probs[1])
                 rw == Len(rewards[1])
             IN  /\ (lp >= 1 /\ rw >= 1 /\ lp # rw) =>
                       /\ ret'.err = "none"
                       /\ Len(ret'.gs) = rw
                       /\ \A i \in 1..rw :
                             ret'.gs[i] = DiscountedSum(rewards[1], i, i)
                       /\ ret'.loss = LossOfFirstPairs(probs[1], rewards[1],
                                                       Min(lp, rw), 1)
                       /\ optimizer'[1].step = optimizer[1].step + 1
                       /\ net'[1].ver = net[1].ver + 1
                       /\ probs'[1] = <<>>
                       /\ rewards'[1] = <<>>
                 /\ ((lp = 0) # (rw = 0)) =>
                       /\ ret'.err # "none"
                       /\ UNCHANGED <<net, optimizer, probs, rewards>>
       /\ (/\ ret.call = "update"
           /\ ret.err # "none"
           /\ ret'.call \in {"sample_action", "rewards.append"}) =>
             /\ Len(probs'[1]) >= Len(probs[1])
             /\ SubSeq(probs'[1], 1, Len(probs[1])) = probs[1]
             /\ Len(rewards'[1]) >= Len(rewards[1])
             /\ SubSeq(rewards'[1], 1, Len(rewards[1])) = rewards[1]]_vars

\* update returned on three rewards and one log-prob; its loss is that of
\* the one pair
C11_Witness ==
    /\ ret.call = "update"
    /\ ret.err = "none"
    /\ Len(ret.preProbs) = 1
    /\ Len(ret.preRewards) = 3
    /\ Len(ret.gs) = 3
    /\ ret.loss = LossOfFirstPairs(ret.preProbs, ret.preRewards, 1, 1)
    /\ probs[1] = <<>>
    /\ rewards[1] = <<>>

====
